---- MODULE Spec2Model ----
(***************************************************************************)
(* Event service of tana-sync-gcal: createEvent, updateEvent, deleteEvent  *)
(* (api/events/service) over the Google Calendar gateway                   *)
(* (common/utils/google-calendar.ts).                                      *)
(*                                                                         *)
(* One step of a request is one awaited gateway call together with the     *)
(* synchronous code that follows it up to the next await (or the return /  *)
(* the rejection of the promise).  The provider serves one call at a time. *)
(***************************************************************************)
EXTENDS Naturals, Sequences, FiniteSets

VARIABLES provider, req, started

vars == <<provider, req, started>>

(* ------------------------------ bounds -------------------------------- *)
\* number of requests served one after another in Spec
MaxRequests == 1

(* ----------------------------- value sets ----------------------------- *)
Slots == {"r1", "r2"}
Calendars == {"cal-1", "cal-2"}
NoCalendar == "(absent)"
Undefined == "(undefined)"
DefaultTimeZone == "Etc/UTC"
Keys == {"name", "description", "location", "date", "timeZone"}

\* values a validated body can carry for a key (schemas.ts: name is
\* non-empty, description and location may be the empty string)
KeyValues(k) ==
  CASE k = "name" -> {"Standup"}
    [] k = "description" -> {""}
    [] k = "location" -> {"room"}
    [] k = "date" -> {"d1"}
    [] k = "timeZone" -> {"Asia/Seoul"}

AllValues == UNION {KeyValues(k) : k \in Keys}

\* PartialEventData: every key optional.  The inferred type is
\* { name?: string | undefined, ... }: a caller of the service may pass a key
\* that is present and holds undefined (the parsed body of the PUT route
\* never does: an absent key stays absent)
PartialEventData ==
  UNION {{d \in [S -> AllValues \cup {Undefined}] :
            \A k \in S : d[k] \in KeyValues(k) \cup {Undefined}} :
         S \in SUBSET Keys}

\* EventData: every key present and defined (defaults applied by the schema)
EventData ==
  {d \in [Keys -> AllValues \cup {DefaultTimeZone}] :
     \A k \in Keys : d[k] \in KeyValues(k) \cup
                        (IF k = "timeZone" THEN {DefaultTimeZone} ELSE {})}

\* bodies used when two requests run at the same time: at most one key
SingleFieldData == {d \in PartialEventData :
                      /\ Cardinality(DOMAIN d) <= 1
                      /\ \A k \in DOMAIN d : d[k] # Undefined}

NoEvent == [none |-> TRUE]

(* --------------------------- Date/Time Resolver ----------------------- *)
\* buildEventDateTimeInfo(date, timeZone): a (start, end) pair
buildEventDateTimeInfo(date, timeZone) ==
  [start |-> <<"start", date, timeZone>>, end |-> <<"end", date, timeZone>>]

(* ------------------------------ provider ------------------------------ *)
InitialResource ==
  [id |-> "ev-1", htmlLink |-> "link/ev-1", etag |-> 0,
   summary |-> "Old title", description |-> "Old text",
   location |-> "Old place",
   start |-> <<"start", "d0", DefaultTimeZone>>,
   end |-> <<"end", "d0", DefaultTimeZone>>]

Reply(ok, prov, data) == [ok |-> ok, prov |-> prov, data |-> data]

Holds(prov, calendarId) == prov.exists /\ prov.cal = calendarId

\* client.events.get
gcGetEvent(prov, calendarId, fault) ==
  IF ~fault /\ Holds(prov, calendarId)
  THEN Reply(TRUE, prov, prov.res)
  ELSE Reply(FALSE, prov, NoEvent)

\* client.events.insert: a new event, its id and link issued by the provider
gcInsertEvent(prov, calendarId, event, fault) ==
  IF ~fault
  THEN Reply(TRUE, [prov EXCEPT !.inserted = @ + 1],
             [id |-> "ev-new", htmlLink |-> "link/ev-new", etag |-> 0,
              summary |-> event.summary, description |-> event.description,
              location |-> event.location, start |-> event.start,
              end |-> event.end])
  ELSE Reply(FALSE, prov, NoEvent)

\* (variant) update sent with If-Match: a body read before a later change
\* is refused
gcUpdateEventIfMatch(prov, calendarId, event, fault) ==
  IF ~fault /\ Holds(prov, calendarId) /\ event.etag = prov.res.etag
  THEN LET res == [event EXCEPT !.id = prov.res.id,
                                !.htmlLink = prov.res.htmlLink,
                                !.etag = prov.res.etag + 1]
       IN Reply(TRUE, [prov EXCEPT !.res = res], res)
  ELSE Reply(FALSE, prov, NoEvent)

\* client.events.update: replaces the entire resource by the request body;
\* no If-Match header is sent, so the body's etag is not compared
gcUpdateEvent(prov, calendarId, event, fault) ==
  IF ~fault /\ Holds(prov, calendarId)
  THEN LET res == [event EXCEPT !.id = prov.res.id,
                                !.htmlLink = prov.res.htmlLink,
                                !.etag = prov.res.etag + 1]
       IN Reply(TRUE, [prov EXCEPT !.res = res], res)
  ELSE Reply(FALSE, prov, NoEvent)

\* client.events.move
moveEventToAnotherCalendar(prov, calendarId, destinationCalendarId, fault) ==
  IF ~fault /\ Holds(prov, calendarId)
  THEN LET res == [prov.res EXCEPT !.etag = @ + 1]
       IN Reply(TRUE, [prov EXCEPT !.cal = destinationCalendarId,
                                   !.res = res], res)
  ELSE Reply(FALSE, prov, NoEvent)

\* client.events.delete, then `return true`
gcDeleteEvent(prov, calendarId, fault) ==
  IF ~fault /\ Holds(prov, calendarId)
  THEN Reply(TRUE, [prov EXCEPT !.exists = FALSE], NoEvent)
  ELSE Reply(FALSE, prov, NoEvent)

(* ------------------------------ service ------------------------------- *)
\* _buildTanaPaste: three lines "key::value"
buildTanaPaste(event, calendarId) ==
  << <<"Event URL", "::", event.htmlLink>>,
     <<"Event ID", "::", event.id>>,
     <<"Synced Calendar ID", "::", calendarId>> >>

NoResult == [kind |-> "none"]
Thrown == [kind |-> "error"]
Paste(event, calendarId) ==
  [kind |-> "paste", text |-> buildTanaPaste(event, calendarId)]
Bool(b) == [kind |-> "boolean", value |-> b]

\* data.k !== undefined
Defined(data, k) == k \in DOMAIN data /\ data[k] # Undefined

\* (variant) the comparison with fromCalendarId left out
MoveWheneverGiven(fromCalendarId, toCalendarId) == toCalendarId # NoCalendar

\* toCalendarId && toCalendarId !== fromCalendarId
MoveNeeded(fromCalendarId, toCalendarId) ==
  toCalendarId # NoCalendar /\ toCalendarId # fromCalendarId

\* (variant) the merge block entered for every request
hasFieldsAlways(data) == TRUE

\* Object.keys(data).length > 0
hasFieldsToUpdate(data) == Cardinality(DOMAIN data) > 0

\* (variant) the body's timeZone ignored
TimeZoneAlwaysDefault(data) == DefaultTimeZone

\* data.timeZone || 'Etc/UTC'
TimeZoneOrDefault(data) ==
  IF Defined(data, "timeZone") /\ data["timeZone"] # ""
  THEN data["timeZone"] ELSE DefaultTimeZone

\* (variant) location taken from the body only, emptied when not given
updatedEventDataDropsLocation(event, data) ==
  LET e0 == [event EXCEPT !.location = ""]
      e1 == IF Defined(data, "name")
            THEN [e0 EXCEPT !.summary = data["name"]] ELSE e0
      e2 == IF Defined(data, "description")
            THEN [e1 EXCEPT !.description = data["description"]] ELSE e1
      e3 == IF Defined(data, "location")
            THEN [e2 EXCEPT !.location = data["location"]] ELSE e2
      dt == buildEventDateTimeInfo(data["date"], TimeZoneOrDefault(data))
  IN IF Defined(data, "date")
     THEN [e3 EXCEPT !.start = dt.start, !.end = dt.end] ELSE e3

\* updatedEventData: a copy of the snapshot with the defined keys written
updatedEventData(event, data) ==
  LET e1 == IF Defined(data, "name")
            THEN [event EXCEPT !.summary = data["name"]] ELSE event
      e2 == IF Defined(data, "description")
            THEN [e1 EXCEPT !.description = data["description"]] ELSE e1
      e3 == IF Defined(data, "location")
            THEN [e2 EXCEPT !.location = data["location"]] ELSE e2
      dt == buildEventDateTimeInfo(data["date"], TimeZoneOrDefault(data))
  IN IF Defined(data, "date")
     THEN [e3 EXCEPT !.start = dt.start, !.end = dt.end] ELSE e3

\* the body createEvent hands to insert
insertBody(data) ==
  LET dt == buildEventDateTimeInfo(data["date"], data["timeZone"])
  IN [summary |-> data["name"], description |-> data["description"],
      location |-> data["location"], start |-> dt.start, end |-> dt.end]

\* (variant) currentCalendarId not reassigned after the move
movedCalendarIdStale(fromCalendarId, toCalendarId) == fromCalendarId

\* currentCalendarId after the move block
movedCalendarId(fromCalendarId, toCalendarId) == toCalendarId

\* one gateway call as the provider saw it: the request, whether the provider
\* was failing when it arrived, and the answer
Call(kind, calendarId, body, fault, rep) ==
  [kind |-> kind, cal |-> calendarId, body |-> body, fault |-> fault,
   ok |-> rep.ok, reply |-> rep.data]

IdleRequest ==
  [op |-> "none", pc |-> "idle", from |-> NoCalendar, to |-> NoCalendar,
   data |-> <<>>, cur |-> NoCalendar, event |-> NoEvent, log |-> <<>>,
   result |-> NoResult, before |-> NoEvent]

\* (variant) the failing call is attempted again
RejectAndRetry(rq, call) == [rq EXCEPT !.log = Append(@, call)]

\* a rejected await: the exception leaves the service function
Reject(rq, call) ==
  [rq EXCEPT !.pc = "failed", !.result = Thrown, !.log = Append(@, call)]

\* the first await of updateEvent
FirstAwait(fromCalendarId, toCalendarId, data) ==
  IF MoveNeeded(fromCalendarId, toCalendarId) THEN "move"
  ELSE IF hasFieldsToUpdate(data) THEN "get" ELSE "fetch"

Init ==
  /\ provider = [exists |-> TRUE, cal |-> "cal-1", res |-> InitialResource,
                 inserted |-> 0]
  /\ req = [r \in Slots |-> IdleRequest]
  /\ started = 0

Free(r) == req[r].pc \in {"idle", "done", "failed"}

(* request arrival *)
StartCreate(r, calendarId, data) ==
  /\ req' = [req EXCEPT ![r] = [IdleRequest EXCEPT
               !.op = "create", !.pc = "insert", !.from = calendarId,
               !.cur = calendarId, !.data = data, !.before = provider]]
  /\ started' = started + 1
  /\ UNCHANGED provider

StartUpdate(r, fromCalendarId, toCalendarId, data) ==
  /\ req' = [req EXCEPT ![r] = [IdleRequest EXCEPT
               !.op = "update",
               !.pc = FirstAwait(fromCalendarId, toCalendarId, data),
               !.from = fromCalendarId, !.to = toCalendarId,
               !.cur = fromCalendarId, !.data = data, !.before = provider]]
  /\ started' = started + 1
  /\ UNCHANGED provider

StartDelete(r, calendarId) ==
  /\ req' = [req EXCEPT ![r] = [IdleRequest EXCEPT
               !.op = "delete", !.pc = "delete", !.from = calendarId,
               !.cur = calendarId, !.before = provider]]
  /\ started' = started + 1
  /\ UNCHANGED provider

(* createEvent: insert, then render *)
CreateInsert(r, fault) ==
  /\ req[r].pc = "insert"
  /\ LET rq == req[r]
         body == insertBody(rq.data)
         rep == gcInsertEvent(provider, rq.from, body, fault)
         call == Call("insert", rq.from, body, fault, rep)
     IN /\ provider' = rep.prov
        /\ req' = [req EXCEPT ![r] =
                     IF rep.ok
                     THEN [rq EXCEPT !.pc = "done", !.event = rep.data,
                                     !.log = Append(@, call),
                                     !.result = Paste(rep.data, rq.from)]
                     ELSE Reject(rq, call)]
  /\ UNCHANGED started

(* (variant) the move-only path renders fromCalendarId *)
UpdateMoveRendersFrom(r, fault) ==
  /\ req[r].pc = "move"
  /\ LET rq == req[r]
         rep == moveEventToAnotherCalendar(provider, rq.from, rq.to, fault)
         call == Call("move", rq.from, [destination |-> rq.to], fault, rep)
         cur == movedCalendarId(rq.from, rq.to)
     IN /\ provider' = rep.prov
        /\ req' = [req EXCEPT ![r] =
                     IF ~rep.ok THEN Reject(rq, call)
                     ELSE IF hasFieldsToUpdate(rq.data)
                     THEN [rq EXCEPT !.pc = "update", !.event = rep.data,
                                     !.cur = cur, !.log = Append(@, call)]
                     ELSE [rq EXCEPT !.pc = "done", !.event = rep.data,
                                     !.cur = cur, !.log = Append(@, call),
                                     !.result = Paste(rep.data, rq.from)]]
  /\ UNCHANGED started

(* updateEvent: the move block *)
UpdateMove(r, fault) ==
  /\ req[r].pc = "move"
  /\ LET rq == req[r]
         rep == moveEventToAnotherCalendar(provider, rq.from, rq.to, fault)
         call == Call("move", rq.from, [destination |-> rq.to], fault, rep)
         cur == movedCalendarId(rq.from, rq.to)
     IN /\ provider' = rep.prov
        /\ req' = [req EXCEPT ![r] =
                     IF ~rep.ok THEN Reject(rq, call)
                     ELSE IF hasFieldsToUpdate(rq.data)
                     THEN [rq EXCEPT !.pc = "update", !.event = rep.data,
                                     !.cur = cur, !.log = Append(@, call)]
                     ELSE [rq EXCEPT !.pc = "done", !.event = rep.data,
                                     !.cur = cur, !.log = Append(@, call),
                                     !.result = Paste(rep.data, cur)]]
  /\ UNCHANGED started

(* updateEvent: the get inside the merge block *)
UpdateGet(r, fault) ==
  /\ req[r].pc = "get"
  /\ LET rq == req[r]
         rep == gcGetEvent(provider, rq.cur, fault)
         call == Call("get", rq.cur, NoEvent, fault, rep)
     IN /\ provider' = rep.prov
        /\ req' = [req EXCEPT ![r] =
                     IF rep.ok
                     THEN [rq EXCEPT !.pc = "update", !.event = rep.data,
                                     !.log = Append(@, call)]
                     ELSE Reject(rq, call)]
  /\ UNCHANGED started

(* (variant) a failed update moves the event back before failing *)
UpdateUpdateRollsBack(r, fault) ==
  /\ req[r].pc = "update"
  /\ LET rq == req[r]
         body == updatedEventData(rq.event, rq.data)
         rep == gcUpdateEvent(provider, rq.cur, body, fault)
         call == Call("update", rq.cur, body, fault, rep)
         back == moveEventToAnotherCalendar(rep.prov, rq.cur, rq.from, FALSE)
     IN IF rep.ok
        THEN /\ provider' = rep.prov
             /\ req' = [req EXCEPT ![r] =
                          [rq EXCEPT !.pc = "done", !.event = rep.data,
                                     !.log = Append(@, call),
                                     !.result = Paste(rep.data, rq.cur)]]
        ELSE /\ provider' = back.prov
             /\ req' = [req EXCEPT ![r] =
                          Reject([rq EXCEPT !.log = Append(@, call)],
                                 Call("move", rq.cur, [destination |-> rq.from],
                                      FALSE, back))]
  /\ UNCHANGED started

(* updateEvent: merge, the full update, then render *)
UpdateUpdate(r, fault) ==
  /\ req[r].pc = "update"
  /\ LET rq == req[r]
         body == updatedEventData(rq.event, rq.data)
         rep == gcUpdateEvent(provider, rq.cur, body, fault)
         call == Call("update", rq.cur, body, fault, rep)
     IN /\ provider' = rep.prov
        /\ req' = [req EXCEPT ![r] =
                     IF rep.ok
                     THEN [rq EXCEPT !.pc = "done", !.event = rep.data,
                                     !.log = Append(@, call),
                                     !.result = Paste(rep.data, rq.cur)]
                     ELSE Reject(rq, call)]
  /\ UNCHANGED started

(* updateEvent: the fallback get, then render *)
UpdateFetch(r, fault) ==
  /\ req[r].pc = "fetch"
  /\ LET rq == req[r]
         rep == gcGetEvent(provider, rq.cur, fault)
         call == Call("get", rq.cur, NoEvent, fault, rep)
     IN /\ provider' = rep.prov
        /\ req' = [req EXCEPT ![r] =
                     IF rep.ok
                     THEN [rq EXCEPT !.pc = "done", !.event = rep.data,
                                     !.log = Append(@, call),
                                     !.result = Paste(rep.data, rq.cur)]
                     ELSE Reject(rq, call)]
  /\ UNCHANGED started

(* deleteEvent *)
DeleteDelete(r, fault) ==
  /\ req[r].pc = "delete"
  /\ LET rq == req[r]
         rep == gcDeleteEvent(provider, rq.from, fault)
         call == Call("delete", rq.from, NoEvent, fault, rep)
     IN /\ provider' = rep.prov
        /\ req' = [req EXCEPT ![r] =
                     IF rep.ok
                     THEN [rq EXCEPT !.pc = "done", !.log = Append(@, call),
                                     !.result = Bool(TRUE)]
                     ELSE Reject(rq, call)]
  /\ UNCHANGED started

Step(r) ==
  \E fault \in BOOLEAN :
    \/ CreateInsert(r, fault)
    \/ UpdateMove(r, fault)
    \/ UpdateGet(r, fault)
    \/ UpdateUpdate(r, fault)
    \/ UpdateFetch(r, fault)
    \/ DeleteDelete(r, fault)

(* requests served one after another *)
Arrive(r) ==
  /\ Free(r)
  /\ started < MaxRequests
  /\ \/ \E c \in Calendars, d \in EventData : StartCreate(r, c, d)
     \/ \E f \in Calendars, t \in Calendars \cup {NoCalendar},
           d \in PartialEventData : StartUpdate(r, f, t, d)
     \/ \E c \in Calendars : StartDelete(r, c)

Next == Arrive("r1") \/ Step("r1")

Spec == Init /\ [][Next]_vars

(* two requests in flight at the same time, each slot used once *)
ArriveConcurrent(r) ==
  /\ req[r].pc = "idle"
  /\ \/ \E c \in Calendars, d \in EventData : StartCreate(r, c, d)
     \/ \E f \in Calendars, t \in Calendars \cup {NoCalendar},
           d \in SingleFieldData : StartUpdate(r, f, t, d)
     \/ \E c \in Calendars : StartDelete(r, c)

NextConcurrent == \E r \in Slots : ArriveConcurrent(r) \/ Step(r)

SpecConcurrent == Init /\ [][NextConcurrent]_vars

(* ======================= properties of the service ==================== *)
Updates == {r \in Slots : req[r].op = "update"}
Kinds(log) == [i \in 1..Len(log) |-> log[i].kind]
Indexes(log, kind) == {i \in 1..Len(log) : log[i].kind = kind}
\* the request asks for another calendar than the one the event is in
Relocates(rq) == rq.to # NoCalendar /\ rq.to # rq.from
\* the calendar id on the third line of a paste text
SyncedCalendarId(result) == result.text[3][3]
\* the snapshot the merge started from: the answer of the call before update
SnapshotBefore(log, i) == log[i - 1].reply
ResourceFields == DOMAIN InitialResource
\* the resource fields a key of the body is written to
Targets(k) ==
  CASE k = "name" -> {"summary"}
    [] k = "description" -> {"description"}
    [] k = "location" -> {"location"}
    [] k = "date" -> {"start", "end"}
    [] k = "timeZone" -> {}

\* C1: when toCalendarId is given and differs from fromCalendarId and the
\* body has a field, every update call comes after a move call that has
\* returned, no move follows it, and it is addressed to toCalendarId.
C1_MoveBeforeUpdate ==
  \A r \in Updates :
    LET rq == req[r] IN
    (Relocates(rq) /\ DOMAIN rq.data # {}) =>
      /\ rq.pc = "update" => (Len(rq.log) = 1 /\ rq.log[1].kind = "move"
                                /\ rq.log[1].ok /\ rq.cur = rq.to)
      /\ \A i \in Indexes(rq.log, "update") :
           /\ rq.log[i].cal = rq.to
           /\ rq.log[i].cal # rq.from
           /\ \E j \in Indexes(rq.log, "move") :
                j < i /\ rq.log[j].ok /\ rq.log[j].cal = rq.from
                      /\ rq.log[j].body.destination = rq.to
           /\ \A j \in Indexes(rq.log, "move") : j < i

C1_Witness ==
  \E r \in Updates :
    /\ req[r].pc = "done" /\ Relocates(req[r])
    /\ Kinds(req[r].log) = <<"move", "update">>
    /\ req[r].log[2].cal = req[r].to

\* C2: with exactly one key in the body, the resource handed to update
\* equals the snapshot (the answer of get, or of move when the event was
\* moved) in every field the key is not written to, provider-managed fields
\* included, and a defined name, description or location is written as given.
C2_OnlyThatField ==
  \A r \in Updates :
    LET rq == req[r] IN
    \A k \in Keys :
      DOMAIN rq.data = {k} =>
        \A i \in Indexes(rq.log, "update") :
          LET body == rq.log[i].body
              snap == SnapshotBefore(rq.log, i)
          IN /\ i = 2 /\ rq.log[1].ok /\ rq.log[1].kind \in {"get", "move"}
             /\ DOMAIN body = ResourceFields
             /\ \A f \in ResourceFields \ Targets(k) : body[f] = snap[f]
             /\ (rq.data[k] = Undefined) => body = snap
             /\ (rq.data[k] # Undefined /\ k \in {"name", "description",
                                                 "location"}) =>
                  \A f \in Targets(k) : body[f] = rq.data[k]

C2_Witness ==
  \E r \in Updates :
    /\ DOMAIN req[r].data = {"description"}
    /\ req[r].data["description"] = ""
    /\ req[r].pc = "done" /\ Len(req[r].log) = 2
    /\ req[r].log[2].kind = "update"
    /\ req[r].log[2].body.description = ""
    /\ req[r].log[1].reply.description = "Old text"
    /\ req[r].log[2].body.summary = "Old title"

\* C4: a successful updateEvent renders, and returns the snapshot of, the
\* calendar the event is in when it completes: toCalendarId when the request
\* moved the event, fromCalendarId otherwise.
C4_RendersCurrentCalendar ==
  \A r \in Updates :
    LET rq == req[r]
        moved == \E i \in Indexes(rq.log, "move") : rq.log[i].ok
    IN rq.pc = "done" =>
         /\ rq.result.kind = "paste"
         /\ SyncedCalendarId(rq.result) = (IF moved THEN rq.to ELSE rq.from)
         /\ moved => SyncedCalendarId(rq.result) # rq.from
         /\ provider.exists
         /\ provider.cal = SyncedCalendarId(rq.result)
         /\ rq.event = provider.res
         /\ rq.result.text = <<<<"Event URL", "::", provider.res.htmlLink>>,
                               <<"Event ID", "::", provider.res.id>>,
                               <<"Synced Calendar ID", "::", provider.cal>>>>

C4_Witness ==
  \E r \in Updates :
    /\ req[r].pc = "done" /\ req[r].from = "cal-1" /\ req[r].to = "cal-2"
    /\ SyncedCalendarId(req[r].result) = "cal-2"
    /\ provider.cal = "cal-2"

\* C9: when date is defined in the body, the update payload's start and end
\* are the pair the resolver returns for the date and the body's timeZone,
\* or Etc/UTC when timeZone is not given; when date is not given, start and
\* end are the snapshot's, whatever timeZone is.
C9_StartEndTogether ==
  \A r \in Updates :
    LET rq == req[r] IN
    \A i \in Indexes(rq.log, "update") :
      LET body == rq.log[i].body
          snap == SnapshotBefore(rq.log, i)
          given(k) == k \in DOMAIN rq.data /\ rq.data[k] # Undefined
          tz == IF given("timeZone") THEN rq.data["timeZone"] ELSE "Etc/UTC"
      IN /\ given("date") =>
              /\ body.start = buildEventDateTimeInfo(rq.data["date"], tz).start
              /\ body.end = buildEventDateTimeInfo(rq.data["date"], tz).end
         /\ ~given("date") => (body.start = snap.start /\ body.end = snap.end)
         /\ (body.start = snap.start) <=> (body.end = snap.end)

C9_Witness ==
  \E r \in Updates :
    /\ "date" \in DOMAIN req[r].data /\ req[r].data["date"] = "d1"
    /\ "timeZone" \notin DOMAIN req[r].data
    /\ req[r].pc = "done" /\ Len(req[r].log) = 2
    /\ req[r].log[2].body.start = <<"start", "d1", "Etc/UTC">>
    /\ req[r].log[2].body.end = <<"end", "d1", "Etc/UTC">>
    /\ req[r].log[1].reply.start = <<"start", "d0", "Etc/UTC">>

\* C10: a successful updateEvent issues [move], [move, update], [get, update]
\* or [get], fixed by whether a move is needed and whether the body has a
\* key; no request issues two gets or a get and a move; toCalendarId equal
\* to fromCalendarId gives the calls and the paste of an absent toCalendarId.
ExpectedCalls(rq) ==
  IF Relocates(rq)
  THEN IF DOMAIN rq.data = {} THEN <<"move">> ELSE <<"move", "update">>
  ELSE IF DOMAIN rq.data = {} THEN <<"get">> ELSE <<"get", "update">>

C10_CallSequences ==
  \A r \in Updates :
    LET rq == req[r] IN
    /\ rq.pc = "done" => Kinds(rq.log) = ExpectedCalls(rq)
    /\ Len(rq.log) <= Len(ExpectedCalls(rq))
    /\ \A i \in 1..Len(rq.log) : rq.log[i].kind = ExpectedCalls(rq)[i]
    /\ Cardinality(Indexes(rq.log, "get")) <= 1
    /\ Indexes(rq.log, "get") = {} \/ Indexes(rq.log, "move") = {}
    /\ (rq.pc = "done" /\ rq.to \in {rq.from, NoCalendar}) =>
         /\ \A i \in 1..Len(rq.log) : rq.log[i].cal = rq.from
         /\ SyncedCalendarId(rq.result) = rq.from

C10_Witness ==
  \E r \in Updates :
    /\ req[r].pc = "done" /\ req[r].to = req[r].from
    /\ Kinds(req[r].log) = <<"get", "update">>
    /\ SyncedCalendarId(req[r].result) = req[r].from

\* no key of the body holds a value: keys are missing or hold undefined
NoFieldPresent(data) == \A k \in DOMAIN data : data[k] = Undefined

\* C3 as stated: with no field present in the body, whatever toCalendarId
\* is, the only gateway call is a get and the provider is as it was.
C3_FetchOnlyAsStated ==
  \A r \in Updates :
    LET rq == req[r] IN
    NoFieldPresent(rq.data) =>
      /\ \A i \in 1..Len(rq.log) : rq.log[i].kind = "get"
      /\ rq.pc = "done" => (Len(rq.log) = 1 /\ provider = rq.before)

\* C3 (amended): with no key in the body and no other calendar asked for, the
\* only gateway call is one get and the provider is as it was; asking for
\* another calendar makes the one call a move; a key that is present and
\* undefined adds an update whose payload is the snapshot, field for field.
C3_FetchOnly ==
  \A r \in Updates :
    LET rq == req[r] IN
    NoFieldPresent(rq.data) =>
      /\ (DOMAIN rq.data = {} /\ ~Relocates(rq)) =>
           /\ Len(rq.log) <= 1
           /\ \A i \in 1..Len(rq.log) : rq.log[i].kind = "get"
           /\ provider = rq.before
           /\ rq.pc = "done" => (Len(rq.log) = 1 /\ rq.event = rq.before.res)
      /\ (DOMAIN rq.data = {} /\ Relocates(rq)) =>
           /\ Len(rq.log) <= 1
           /\ \A i \in 1..Len(rq.log) : rq.log[i].kind = "move"
      /\ \A i \in 1..Len(rq.log) :
           /\ rq.log[i].kind \notin {"insert", "delete"}
           /\ rq.log[i].kind = "update" =>
                (DOMAIN rq.data # {}
                   /\ rq.log[i].body = SnapshotBefore(rq.log, i))

C3_Witness ==
  \E r \in Updates :
    /\ req[r].pc = "done" /\ DOMAIN req[r].data = {}
    /\ req[r].to = req[r].from
    /\ Kinds(req[r].log) = <<"get">> /\ req[r].log[1].ok
    /\ provider = req[r].before

\* C5 as stated: deleteEvent issues one delete call, returns true only when
\* it succeeded, and returns false (not an error) when it failed.
C5_DeleteReturnsFalse ==
  \A r \in Slots :
    LET rq == req[r] IN
    rq.op = "delete" =>
      /\ Len(rq.log) <= 1
      /\ \A i \in 1..Len(rq.log) : rq.log[i].kind = "delete"
      /\ rq.result = Bool(TRUE) => (Len(rq.log) = 1 /\ rq.log[1].ok)
      /\ (Len(rq.log) = 1 /\ ~rq.log[1].ok) =>
           (rq.pc = "done" /\ rq.result = Bool(FALSE))

\* C6: when the move succeeded and the update after it failed, the request
\* has failed, it issued no call after the update, and the event is in
\* toCalendarId as the move left it.
C6_NoRollback ==
  \A r \in Updates :
    LET rq == req[r] IN
    (Len(rq.log) >= 2 /\ rq.log[1].kind = "move" /\ rq.log[1].ok
       /\ rq.log[2].kind = "update" /\ ~rq.log[2].ok) =>
      /\ rq.pc = "failed" /\ rq.result = Thrown
      /\ Len(rq.log) = 2
      /\ provider.exists /\ provider.cal = rq.to /\ provider.cal # rq.from
      /\ provider.res = rq.log[1].reply

C6_Witness ==
  \E r \in Updates :
    /\ req[r].pc = "failed" /\ Len(req[r].log) = 2
    /\ req[r].log[1].kind = "move" /\ req[r].log[1].ok
    /\ req[r].log[2].kind = "update" /\ ~req[r].log[2].ok
    /\ req[r].from = "cal-1" /\ provider.cal = "cal-2"

C7_NoCoordination ==
  [][\A r \in Slots :
       (req[r].pc = "update" /\ req'[r].pc # "update") =>
         LET c == req'[r].log[Len(req'[r].log)] IN
         /\ c.kind = "update"
         /\ c.ok <=> (~c.fault /\ provider.exists /\ provider.cal = c.cal)
         /\ c.ok => provider'.res = [c.body EXCEPT
                                       !.etag = provider.res.etag + 1]
         /\ c.ok => req'[r].pc = "done"]_vars

C7_Witness ==
  /\ \A r \in Slots : req[r].pc = "done" /\ req[r].op = "update"
                        /\ Kinds(req[r].log) = <<"get", "update">>
  /\ DOMAIN req["r1"].data = {"name"}
  /\ DOMAIN req["r2"].data = {"description"}
  /\ req["r1"].log[2].body.summary = "Standup"
  /\ req["r2"].log[2].body.summary = "Old title"
  /\ provider.res.summary = "Old title"
  /\ provider.res.description = ""
====
